---- MODULE Spec2Model ----
(***************************************************************************)
(* Model of the liveness-check component App (src/App.tsx) and of the      *)
(* verification service it calls (GeminiLivenessService.verifyLiveness).   *)
(*                                                                         *)
(* The React state of App is the state of the model.  Every handler        *)
(* (button click, promise continuation, timer callback, sensor event) is   *)
(* one action: the synchronous code it runs up to its next await.          *)
(* A closure keeps the values of the render that created it: the timer     *)
(* callback of startVerification carries `challenge` and `gyro` with it.   *)
(*                                                                         *)
(* Nullable JavaScript values are kept in one shape per field so that they *)
(* can be compared: Null for strings, NullChallenge / NullResult for       *)
(* objects, Undefined for a property an object does not have.              *)
(***************************************************************************)
EXTENDS Integers, FiniteSets, Sequences, TLC

\* ---------------------------------------------------------------- bounds
\* Presses of "Start Liveness Test" (each starts one initialisation chain).
MaxInit == 2
\* Calls of startVerification (each creates one timer).
MaxAttempts == 2

\* ------------------------------------------------------------ JS values
Null == "null"
Undefined == "undefined"

\* A sensor axis without a reading (event.alpha === null).
NullAngle == 999

\* ------------------------------------------------------------- types.ts
LivenessStatus ==
    {"IDLE", "INITIALIZING", "CHALLENGE_REQUESTED", "RECORDING",
     "VERIFYING", "SUCCESS", "FAILED"}

ExpectedMovement ==
    {"tilt_up", "tilt_down", "rotate_left", "rotate_right", "steady"}

\* ------------------------------------------------------------- App.tsx
CHALLENGES ==
    << [id |-> "1", instruction |-> "Please tilt your phone UP slowly",
        expectedMovement |-> "tilt_up"],
       [id |-> "2", instruction |-> "Please tilt your phone DOWN slowly",
        expectedMovement |-> "tilt_down"],
       [id |-> "3", instruction |-> "Slowly rotate your phone to the LEFT",
        expectedMovement |-> "rotate_left"],
       [id |-> "4", instruction |-> "Slowly rotate your phone to the RIGHT",
        expectedMovement |-> "rotate_right"] >>

\* currentChallenge === null
NullChallenge ==
    [id |-> Null, instruction |-> Null, expectedMovement |-> Null]

\* A JavaScript value as the field isLive can hold it: its typeof (with
\* "null" for null) and its text.
JsUndefined == [type |-> "undefined", text |-> Undefined]
JsTrue == [type |-> "boolean", text |-> "true"]
JsFalse == [type |-> "boolean", text |-> "false"]
JsNumber(text) == [type |-> "number", text |-> text]
JsString(text) == [type |-> "string", text |-> text]

\* result === null, and the value JSON.parse gives for the text "null"
NullResult ==
    [kind |-> "null", isLive |-> JsUndefined, confidence |-> Undefined,
     reasoning |-> Undefined]

\* useState<GyroData>({ alpha: 0, beta: 0, gamma: 0 })
InitialGyro == [alpha |-> 0, beta |-> 0, gamma |-> 0]

ErrMotionDenied ==
    "Motion sensor access denied. Please allow motion sensor permissions to continue."
ErrNotSupported == "Device orientation not supported on this device."
ErrCameraDenied ==
    "Camera access denied. Please allow camera permissions to continue."
ErrNoCamera == "No camera found. Please ensure your device has a camera."
ErrCameraOther(message) ==
    "Camera error: " \o (IF message = "" THEN "Unknown error" ELSE message)
ErrCapture == "Failed to capture camera frame."
ErrService ==
    "Verification service unavailable. Check your internet connection."

\* ------------------------------------------------------------ platforms
\* isIOS: the user-agent test; hasDeviceOrientation: window.DeviceOrientationEvent;
\* hasRequestPermission: DeviceOrientationEvent.requestPermission is a function.
Platforms ==
    { [isIOS |-> TRUE,  hasDeviceOrientation |-> TRUE,  hasRequestPermission |-> TRUE],
      [isIOS |-> FALSE, hasDeviceOrientation |-> TRUE,  hasRequestPermission |-> FALSE],
      [isIOS |-> FALSE, hasDeviceOrientation |-> FALSE, hasRequestPermission |-> FALSE] }

\* The deviceorientation events the platform delivers (a reading may be null).
OrientationEvents ==
    { [alpha |-> NullAngle, beta |-> NullAngle, gamma |-> NullAngle],
      [alpha |-> NullAngle, beta |-> 45, gamma |-> 10] }

\* The errors getUserMedia rejects with: err.name and err.message, "" when
\* the error has no message.
CameraErrors ==
    { [name |-> "NotAllowedError", message |-> "Permission denied"],
      [name |-> "NotFoundError", message |-> "Requested device not found"],
      [name |-> "NotReadableError", message |-> "Could not start video source"],
      [name |-> "AbortError", message |-> ""] }

VARIABLES
    status,            \* useState<LivenessStatus>
    gyro,              \* useState<GyroData>
    currentChallenge,  \* useState<Challenge | null>
    result,            \* useState<VerificationResult | null>
    isCameraReady,     \* useState(false)
    isGyroReady,       \* useState(false)
    error,             \* useState<string | null>
    gyroCleanupRef,    \* useRef: the listener the stored cleanup removes, 0 - 1 if null
    listeners,         \* deviceorientation listeners registered on window
    platform,          \* the browser the page runs in
    nInit,             \* presses of "Start Liveness Test" so far
    initPc,            \* where each initialisation chain is suspended
    nAttempts,         \* calls of startVerification so far
    timers,            \* pending setTimeout callbacks, each with its closure
    calls,             \* pending generateContent calls, each with its arguments
    lastFrame,         \* what captureFrame returned, when the last handler called it
    lastResponse,      \* how generateContent settled, when the last handler resumed from it
    statusWrites,      \* the values the last handler gave setStatus, in order
    lastOp,            \* the handler that ran last
    lastId             \* the attempt that handler belonged to, 0 if none

vars ==
    << status, gyro, currentChallenge, result, isCameraReady, isGyroReady,
       error, gyroCleanupRef, listeners, platform, nInit, initPc, nAttempts,
       timers, calls, lastFrame, lastResponse, statusWrites, lastOp, lastId >>

\* The four fields the spec calls the state of an attempt.
sessionState == << status, currentChallenge, result, error >>

NoListener == 0 - 1
\* The listener registered by the mount effect; chain c registers listener c.
MountListener == 0

InitIds == 1 .. MaxInit

\* --------------------------------------------------- bookkeeping values
\* The last handler did not call captureFrame.
NotCaptured == "not captured"

\* A text generateContent answers with: what kind of text it is and, for a
\* JSON object, the fields it has.
ResponseText(kind, isLive, confidence, reasoning) ==
    [kind |-> kind, isLive |-> isLive, confidence |-> confidence,
     reasoning |-> reasoning]

EmptyObjectText == ResponseText("object", JsUndefined, Undefined, Undefined)

\* The last handler did not resume from generateContent.
NoResponse ==
    [rejected |-> FALSE,
     text |-> ResponseText("none", JsUndefined, Undefined, Undefined)]

\* ------------------------------------------------------- sensor handler
\* event.alpha ?? 0
Coalesce(reading, default) == IF reading = NullAngle THEN default ELSE reading

\* handleOrientation: the value it passes to setGyro.
handleOrientation(event) ==
    [alpha |-> Coalesce(event.alpha, 0),
     beta  |-> Coalesce(event.beta, 0),
     gamma |-> Coalesce(event.gamma, 0)]

\* A deviceorientation event reaches every registered listener; each one
\* stores the readings and sets the ready flag.
DeviceOrientation(event) ==
    /\ listeners # {}
    /\ gyro' = handleOrientation(event)
    /\ isGyroReady' = TRUE
    /\ lastOp' = "orientation"
    /\ statusWrites' = << >>
    /\ lastResponse' = NoResponse
    /\ lastFrame' = NotCaptured
    /\ lastId' = 0
    /\ UNCHANGED << status, currentChallenge, result, isCameraReady, error,
                    gyroCleanupRef, listeners, platform, nInit, initPc,
                    nAttempts, timers, calls >>

\* ------------------------------------------------- sensor initialisation
\* requestGyroPermission when no permission prompt exists: true, or false
\* when reading DeviceOrientationEvent.requestPermission throws.
requestGyroPermissionSync == platform.hasDeviceOrientation

\* initializeGyro, lines 49-52: run and drop the stored cleanup.
CleanedListeners ==
    IF gyroCleanupRef # NoListener THEN listeners \ {gyroCleanupRef}
    ELSE listeners

\* initializeGyro, lines 55-76, for chain c on listener set ls:
\* the listeners, the cleanup handle and the error it leaves.
AfterPermission(c, hasPermission, ls, ref) ==
    IF ~hasPermission
    THEN [listeners |-> ls, ref |-> ref, error |-> ErrMotionDenied]
    ELSE IF platform.hasDeviceOrientation
         THEN [listeners |-> ls \cup {c}, ref |-> c, error |-> error]
         ELSE [listeners |-> ls, ref |-> ref, error |-> ErrNotSupported]

\* "Start Liveness Test" is rendered when status is IDLE and the camera is
\* not ready.
StartTestVisible == status = "IDLE" /\ ~isCameraReady

\* The click handler up to its first real suspension: initializeGyro's
\* cleanup, then either the permission prompt or, without one, the rest of
\* initializeGyro and startCamera up to getUserMedia.
ClickStartLivenessTest ==
    /\ StartTestVisible
    /\ nInit < MaxInit
    /\ LET c == nInit + 1
           r == AfterPermission(c, requestGyroPermissionSync,
                                CleanedListeners, NoListener)
       IN /\ nInit' = c
          /\ lastId' = 0
          /\ IF platform.hasRequestPermission
             THEN /\ listeners' = CleanedListeners
                  /\ gyroCleanupRef' = NoListener
                  /\ initPc' = [initPc EXCEPT ![c] = "awaitPermission"]
                  /\ UNCHANGED error
             ELSE /\ listeners' = r.listeners
                  /\ gyroCleanupRef' = r.ref
                  /\ error' = r.error
                  /\ initPc' = [initPc EXCEPT ![c] = "awaitGetUserMedia"]
    /\ lastOp' = "clickStartTest"
    /\ statusWrites' = << >>
    /\ lastResponse' = NoResponse
    /\ lastFrame' = NotCaptured
    /\ UNCHANGED << status, gyro, currentChallenge, result, isCameraReady,
                    isGyroReady, platform, nAttempts, timers, calls >>

\* The permission prompt is answered (or throws: not granted); the rest of
\* initializeGyro runs, then startCamera up to getUserMedia.
PermissionOutcome(c, granted) ==
    /\ initPc[c] = "awaitPermission"
    /\ LET r == AfterPermission(c, granted, listeners, gyroCleanupRef)
       IN /\ listeners' = r.listeners
          /\ gyroCleanupRef' = r.ref
          /\ error' = r.error
    /\ initPc' = [initPc EXCEPT ![c] = "awaitGetUserMedia"]
    /\ lastOp' = "permission"
    /\ statusWrites' = << >>
    /\ lastResponse' = NoResponse
    /\ lastFrame' = NotCaptured
    /\ lastId' = 0
    /\ UNCHANGED << status, gyro, currentChallenge, result, isCameraReady,
                    isGyroReady, platform, nInit, nAttempts, timers, calls >>

\* ------------------------------------------------- camera initialisation
\* startCamera's catch: the message for an error name.
CameraErrorMessage(err) ==
    IF err.name \in {"NotAllowedError", "PermissionDeniedError"} THEN ErrCameraDenied
    ELSE IF err.name \in {"NotFoundError", "DevicesNotFoundError"} THEN ErrNoCamera
    ELSE ErrCameraOther(err.message)

\* getUserMedia resolves: the stream is attached and play() is awaited.
GetUserMediaResolve(c) ==
    /\ initPc[c] = "awaitGetUserMedia"
    /\ initPc' = [initPc EXCEPT ![c] = "awaitPlay"]
    /\ lastOp' = "getUserMediaResolve"
    /\ statusWrites' = << >>
    /\ lastResponse' = NoResponse
    /\ lastFrame' = NotCaptured
    /\ lastId' = 0
    /\ UNCHANGED << status, gyro, currentChallenge, result, isCameraReady,
                    isGyroReady, error, gyroCleanupRef, listeners, platform,
                    nInit, nAttempts, timers, calls >>

\* getUserMedia rejects: startCamera's catch sets the error.
GetUserMediaReject(c, err) ==
    /\ initPc[c] = "awaitGetUserMedia"
    /\ error' = CameraErrorMessage(err)
    /\ initPc' = [initPc EXCEPT ![c] = "done"]
    /\ lastOp' = "getUserMediaReject"
    /\ statusWrites' = << >>
    /\ lastResponse' = NoResponse
    /\ lastFrame' = NotCaptured
    /\ lastId' = 0
    /\ UNCHANGED << status, gyro, currentChallenge, result, isCameraReady,
                    isGyroReady, gyroCleanupRef, listeners, platform, nInit,
                    nAttempts, timers, calls >>

\* play() settles (a rejection is only logged): the camera is ready.
PlaySettled(c) ==
    /\ initPc[c] = "awaitPlay"
    /\ isCameraReady' = TRUE
    /\ initPc' = [initPc EXCEPT ![c] = "done"]
    /\ lastOp' = "play"
    /\ statusWrites' = << >>
    /\ lastResponse' = NoResponse
    /\ lastFrame' = NotCaptured
    /\ lastId' = 0
    /\ UNCHANGED << status, gyro, currentChallenge, result, isGyroReady,
                    error, gyroCleanupRef, listeners, platform, nInit,
                    nAttempts, timers, calls >>

\* ---------------------------------------------------------- captureFrame
\* The widths the video element reports: 0 until a frame has been decoded.
VideoWidths == {0, 640}

\* captureFrame with both refs mounted: null without a 2d context, else the
\* part of the data URL after the comma (empty for a 0 x 0 canvas).
captureFrame(ctx2d, videoWidth) ==
    IF ~ctx2d THEN Null
    ELSE IF videoWidth = 0 THEN ""
    ELSE "base64jpeg"

\* A variant of !frame that tests for null only.
NoFrameNullOnly(frame) == frame = Null

\* !frame
NoFrame(frame) == frame \in {Null, ""}

\* ------------------------------------------------------- verifyLiveness
\* What generateContent can answer: response.text is undefined, empty, not
\* JSON, the JSON text null, or a JSON object with some of the fields, isLive
\* being a boolean or, in the last text, the string "false".

ResponseTexts ==
    { ResponseText("undefined", JsUndefined, Undefined, Undefined),
      ResponseText("empty", JsUndefined, Undefined, Undefined),
      ResponseText("invalid", JsUndefined, Undefined, Undefined),
      ResponseText("null", JsUndefined, Undefined, Undefined),
      ResponseText("object", JsTrue, "0.92", "synchronized motion"),
      ResponseText("object", JsFalse, "0.3", "no depth detected"),
      ResponseText("object", JsUndefined, "0.5", "no decision"),
      ResponseText("object", JsTrue, Undefined, Undefined),
      ResponseText("object", JsString("false"), "0.3", "spoof") }

\* response.text || '{}'
TextOrEmptyObject(text) ==
    IF text.kind \in {"undefined", "empty"} THEN EmptyObjectText ELSE text

\* JSON.parse: throws on text that is not JSON, else the value the text
\* denotes, with the fields the text has and no others.
JSONparse(text) ==
    IF text.kind = "invalid" THEN [threw |-> TRUE, value |-> NullResult]
    ELSE IF text.kind = "null" THEN [threw |-> FALSE, value |-> NullResult]
    ELSE [threw |-> FALSE,
          value |-> [kind |-> "object", isLive |-> text.isLive,
                     confidence |-> text.confidence,
                     reasoning |-> text.reasoning]]

\* verifyLiveness once generateContent has settled: it rethrows a rejection
\* and a parse error, and returns the parsed value as it is (the cast to
\* VerificationResult checks nothing at run time).
verifyLiveness(rejected, text) ==
    IF rejected THEN [threw |-> TRUE, value |-> NullResult]
    ELSE JSONparse(TextOrEmptyObject(text))

\* The truth value JavaScript gives verification.isLive: false, 0, NaN, the
\* empty string, null and undefined are falsy, every other value is truthy.
Truthy(v) ==
    CASE v.type = "boolean" -> v.text = "true"
      [] v.type = "number" -> v.text \notin {"0", "-0", "NaN"}
      [] v.type = "string" -> v.text # ""
      [] v.type \in {"undefined", "null"} -> FALSE
      [] OTHER -> TRUE

\* ---------------------------------------------------- startVerification
\* A variant of the button's condition without the sensor flag, as in the
\* older copy of the component.
RunCheckVisibleNoGyro == isCameraReady /\ status = "IDLE"

\* A variant of the button's condition that leaves the status out.
RunCheckVisibleAnyStatus == isCameraReady /\ isGyroReady

\* "Run Liveness Check" is rendered when both ready flags are set and the
\* status is IDLE.
RunCheckVisible == isCameraReady /\ isGyroReady /\ status = "IDLE"

\* A variant of the index that never repeats the challenge last selected.
RandomIndicesNoRepeat ==
    {i \in 1 .. Len(CHALLENGES) : CHALLENGES[i] # currentChallenge}

\* A variant of the index with Math.round in place of Math.floor.
RandomIndicesRounded == 1 .. Len(CHALLENGES) + 1

\* Math.floor(Math.random() * CHALLENGES.length), counted from 1.
RandomIndices == 1 .. Len(CHALLENGES)

\* CHALLENGES[index]: undefined outside the array.
UndefinedChallenge ==
    [id |-> Undefined, instruction |-> Undefined, expectedMovement |-> Undefined]

ChallengeAt(i) ==
    IF i \in DOMAIN CHALLENGES THEN CHALLENGES[i] ELSE UndefinedChallenge

\* A variant in which the callback reads the currentChallenge state of the
\* render it was created in.
ClosureChallengeStale(i) == currentChallenge

\* The `challenge` the timer callback closes over: the constant of line 169.
ClosureChallenge(i) == ChallengeAt(i)

\* A variant of startVerification without its last setStatus: the status is
\* left at INITIALIZING.
startVerificationStaysInitializing(i) ==
    /\ nAttempts < MaxAttempts
    /\ result' = NullResult
    /\ error' = Null
    /\ currentChallenge' = ChallengeAt(i)
    /\ status' = "INITIALIZING"
    /\ nAttempts' = nAttempts + 1
    /\ timers' = timers \cup
         {[id |-> nAttempts + 1, challenge |-> ClosureChallenge(i), gyro |-> gyro]}
    /\ lastOp' = "start"
    /\ statusWrites' = << "INITIALIZING" >>
    /\ lastResponse' = NoResponse
    /\ lastFrame' = NotCaptured
    /\ lastId' = nAttempts + 1
    /\ UNCHANGED << gyro, isCameraReady, isGyroReady, gyroCleanupRef,
                    listeners, platform, nInit, initPc, calls >>

\* A variant of startVerification without setCurrentChallenge.
startVerificationNoChallenge(i) ==
    /\ nAttempts < MaxAttempts
    /\ result' = NullResult
    /\ error' = Null
    /\ status' = "CHALLENGE_REQUESTED"
    /\ nAttempts' = nAttempts + 1
    /\ timers' = timers \cup
         {[id |-> nAttempts + 1, challenge |-> ClosureChallenge(i), gyro |-> gyro]}
    /\ lastOp' = "start"
    /\ statusWrites' = << "INITIALIZING", "CHALLENGE_REQUESTED" >>
    /\ lastResponse' = NoResponse
    /\ lastFrame' = NotCaptured
    /\ lastId' = nAttempts + 1
    /\ UNCHANGED << gyro, currentChallenge, isCameraReady, isGyroReady,
                    gyroCleanupRef, listeners, platform, nInit, initPc, calls >>

\* A variant of startVerification without setError(null).
startVerificationKeepsError(i) ==
    /\ nAttempts < MaxAttempts
    /\ result' = NullResult
    /\ currentChallenge' = ChallengeAt(i)
    /\ status' = "CHALLENGE_REQUESTED"
    /\ nAttempts' = nAttempts + 1
    /\ timers' = timers \cup
         {[id |-> nAttempts + 1, challenge |-> ClosureChallenge(i), gyro |-> gyro]}
    /\ lastOp' = "start"
    /\ statusWrites' = << "INITIALIZING", "CHALLENGE_REQUESTED" >>
    /\ lastResponse' = NoResponse
    /\ lastFrame' = NotCaptured
    /\ lastId' = nAttempts + 1
    /\ UNCHANGED << gyro, isCameraReady, isGyroReady, error, gyroCleanupRef,
                    listeners, platform, nInit, initPc, calls >>

\* startVerification, lines 164-174: clears the outcome, picks challenge i,
\* and schedules the timer callback, which closes over `challenge` and over
\* the `gyro` of the render the handler belongs to.
startVerification(i) ==
    /\ nAttempts < MaxAttempts
    /\ result' = NullResult
    /\ error' = Null
    /\ currentChallenge' = ChallengeAt(i)
    /\ status' = "CHALLENGE_REQUESTED"
    /\ nAttempts' = nAttempts + 1
    /\ timers' = timers \cup
         {[id |-> nAttempts + 1, challenge |-> ClosureChallenge(i), gyro |-> gyro]}
    /\ lastOp' = "start"
    /\ statusWrites' = << "INITIALIZING", "CHALLENGE_REQUESTED" >>
    /\ lastResponse' = NoResponse
    /\ lastFrame' = NotCaptured
    /\ lastId' = nAttempts + 1
    /\ UNCHANGED << gyro, isCameraReady, isGyroReady, gyroCleanupRef,
                    listeners, platform, nInit, initPc, calls >>

\* The button's handler, with the index Math.random gives.
ClickRunLivenessCheck ==
    /\ RunCheckVisible
    /\ \E i \in RandomIndices : startVerification(i)

\* A variant of the no-frame branch that ends in FAILED.
TimerNoFrameFailed(t) ==
    /\ error' = ErrCapture
    /\ status' = "FAILED"
    /\ timers' = timers \ {t}
    /\ lastOp' = "timerNoFrame"
    /\ statusWrites' = << "VERIFYING", "FAILED" >>
    /\ lastResponse' = NoResponse
    /\ lastId' = t.id
    /\ UNCHANGED << gyro, currentChallenge, result, isCameraReady,
                    isGyroReady, gyroCleanupRef, listeners, platform, nInit,
                    initPc, nAttempts, calls >>

\* A variant of the no-frame branch that leaves the timer scheduled, so that
\* the capture is tried again.
TimerNoFrameRetries(t) ==
    /\ error' = ErrCapture
    /\ status' = "IDLE"
    /\ timers' = timers
    /\ lastOp' = "timerNoFrame"
    /\ statusWrites' = << "VERIFYING", "IDLE" >>
    /\ lastResponse' = NoResponse
    /\ lastId' = t.id
    /\ UNCHANGED << gyro, currentChallenge, result, isCameraReady,
                    isGyroReady, gyroCleanupRef, listeners, platform, nInit,
                    initPc, nAttempts, calls >>

\* The timer callback, lines 177-181: no frame.
TimerNoFrame(t) ==
    /\ error' = ErrCapture
    /\ status' = "IDLE"
    /\ timers' = timers \ {t}
    /\ lastOp' = "timerNoFrame"
    /\ statusWrites' = << "VERIFYING", "IDLE" >>
    /\ lastResponse' = NoResponse
    /\ lastId' = t.id
    /\ UNCHANGED << gyro, currentChallenge, result, isCameraReady,
                    isGyroReady, gyroCleanupRef, listeners, platform, nInit,
                    initPc, nAttempts, calls >>

\* The timer callback, lines 175 and 184: verifyLiveness is called with the
\* frame and with the closure's gyro and challenge; the callback is
\* suspended until generateContent settles.
TimerCallsVerify(t, frame) ==
    /\ status' = "VERIFYING"
    /\ timers' = timers \ {t}
    /\ calls' = calls \cup
         {[id |-> t.id, frame |-> frame, gyro |-> t.gyro,
           challenge |-> t.challenge]}
    /\ lastOp' = "timerCallsVerify"
    /\ statusWrites' = << "VERIFYING" >>
    /\ lastResponse' = NoResponse
    /\ lastId' = t.id
    /\ UNCHANGED << gyro, currentChallenge, result, isCameraReady,
                    isGyroReady, error, gyroCleanupRef, listeners, platform,
                    nInit, initPc, nAttempts >>

\* The timer of an attempt fires (it is never cleared).
TimerFires(t, ctx2d, videoWidth) ==
    /\ t \in timers
    /\ lastFrame' = captureFrame(ctx2d, videoWidth)
    /\ IF NoFrame(captureFrame(ctx2d, videoWidth))
       THEN TimerNoFrame(t)
       ELSE TimerCallsVerify(t, captureFrame(ctx2d, videoWidth))

\* Lines 185-186: the returned value is stored and decides the status.
OnVerdict(c, verification) ==
    /\ result' = verification
    /\ status' = IF Truthy(verification.isLive) THEN "SUCCESS" ELSE "FAILED"
    /\ lastOp' = "verdict"
    /\ statusWrites' = << status' >>
    /\ UNCHANGED error

\* A variant of the catch block that ends in FAILED.
OnVerifyErrorFailed(c, stored) ==
    /\ result' = stored
    /\ error' = ErrService
    /\ status' = "FAILED"
    /\ lastOp' = "verifyError"
    /\ statusWrites' = << status' >>

\* A variant of the catch block without setStatus(IDLE).
OnVerifyErrorKeepsStatus(c, stored) ==
    /\ result' = stored
    /\ error' = ErrService
    /\ status' = status
    /\ lastOp' = "verifyError"
    /\ statusWrites' = << >>

\* Lines 187-190: the catch block; `stored` is what setResult was given
\* before the exception, if it was reached.
OnVerifyError(c, stored) ==
    /\ result' = stored
    /\ error' = ErrService
    /\ status' = "IDLE"
    /\ lastOp' = "verifyError"
    /\ statusWrites' = << status' >>

\* generateContent settles and the timer callback resumes in its try block.
\* Reading isLive of null throws after setResult(null).
VerifySettles(c, rejected, text) ==
    /\ c \in calls
    /\ calls' = calls \ {c}
    /\ lastId' = c.id
    /\ lastResponse' = [rejected |-> rejected, text |-> text]
    /\ lastFrame' = NotCaptured
    /\ LET r == verifyLiveness(rejected, text)
       IN IF r.threw THEN OnVerifyError(c, result)
          ELSE IF r.value.kind = "null" THEN OnVerifyError(c, r.value)
          ELSE OnVerdict(c, r.value)
    /\ UNCHANGED << gyro, currentChallenge, isCameraReady, isGyroReady,
                    gyroCleanupRef, listeners, platform, nInit, initPc,
                    nAttempts, timers >>

\* ----------------------------------------------------------------- reset
\* A variant of reset without its setError(null).
resetKeepsError ==
    /\ status' = "IDLE"
    /\ result' = NullResult
    /\ currentChallenge' = NullChallenge
    /\ lastOp' = "reset"
    /\ statusWrites' = << "IDLE" >>
    /\ lastResponse' = NoResponse
    /\ lastFrame' = NotCaptured
    /\ lastId' = 0
    /\ UNCHANGED << gyro, isCameraReady, isGyroReady, error, gyroCleanupRef,
                    listeners, platform, nInit, initPc, nAttempts, timers,
                    calls >>

reset ==
    /\ status' = "IDLE"
    /\ result' = NullResult
    /\ currentChallenge' = NullChallenge
    /\ error' = Null
    /\ lastOp' = "reset"
    /\ statusWrites' = << "IDLE" >>
    /\ lastResponse' = NoResponse
    /\ lastFrame' = NotCaptured
    /\ lastId' = 0
    /\ UNCHANGED << gyro, isCameraReady, isGyroReady, gyroCleanupRef,
                    listeners, platform, nInit, initPc, nAttempts, timers,
                    calls >>

\* A variant that also renders "Try Again" while the request is outstanding.
TryAgainVisibleWhileVerifying == status \in {"FAILED", "VERIFYING"}

\* "Finish" is rendered in SUCCESS, "Try Again" in FAILED.
FinishVisible == status = "SUCCESS"
TryAgainVisible == status = "FAILED"

ClickFinish == FinishVisible /\ reset
ClickTryAgain == TryAgainVisible /\ reset

\* ------------------------------------------------------------------ mount
\* The mount effect registers a listener unless the page runs on iOS.
MountRegisters(p) == ~p.isIOS /\ p.hasDeviceOrientation

Init ==
    /\ platform \in Platforms
    /\ status = "IDLE"
    /\ gyro = InitialGyro
    /\ currentChallenge = NullChallenge
    /\ result = NullResult
    /\ isCameraReady = FALSE
    /\ isGyroReady = FALSE
    /\ error = Null
    /\ listeners = IF MountRegisters(platform) THEN {MountListener} ELSE {}
    /\ gyroCleanupRef = IF MountRegisters(platform) THEN MountListener ELSE NoListener
    /\ nInit = 0
    /\ initPc = [c \in InitIds |-> "notStarted"]
    /\ nAttempts = 0
    /\ timers = {}
    /\ calls = {}
    /\ lastFrame = NotCaptured
    /\ lastResponse = NoResponse
    /\ statusWrites = << >>
    /\ lastOp = "mount"
    /\ lastId = 0

\* The application as the page offers it.
Next ==
    \/ ClickStartLivenessTest
    \/ \E c \in InitIds, granted \in BOOLEAN : PermissionOutcome(c, granted)
    \/ \E c \in InitIds : GetUserMediaResolve(c)
    \/ \E c \in InitIds, err \in CameraErrors : GetUserMediaReject(c, err)
    \/ \E c \in InitIds : PlaySettled(c)
    \/ \E event \in OrientationEvents : DeviceOrientation(event)
    \/ ClickRunLivenessCheck
    \/ \E t \in timers, ctx2d \in BOOLEAN, w \in VideoWidths : TimerFires(t, ctx2d, w)
    \/ \E c \in calls, text \in ResponseTexts : VerifySettles(c, FALSE, text)
    \/ \E c \in calls : VerifySettles(c, TRUE, EmptyObjectText)
    \/ ClickFinish
    \/ ClickTryAgain

Spec == Init /\ [][Next]_vars

\* The 4000 ms timer of a pending callback elapses.
TimerElapses ==
    \E t \in timers, ctx2d \in BOOLEAN, w \in VideoWidths : TimerFires(t, ctx2d, w)

\* A pending generateContent request returns or fails.
CallCompletes ==
    \/ \E c \in calls, text \in ResponseTexts : VerifySettles(c, FALSE, text)
    \/ \E c \in calls : VerifySettles(c, TRUE, EmptyObjectText)

\* The application when every timer elapses and every request completes:
\* the browser runs a setTimeout callback once its delay has passed, and the
\* request is taken to settle.
SpecFair == Spec /\ WF_vars(TimerElapses) /\ WF_vars(CallCompletes)

\* ======================================================== properties
\* The last handler was the timer callback of attempt lastId.
TimerCallbackRan == lastOp \in {"timerNoFrame", "timerCallsVerify"}

\* The last handler was the timer callback resuming from verifyLiveness.
VerifyResumed == lastOp \in {"verdict", "verifyError"}

\* A value with the three fields of VerificationResult.
CompleteVerdict(v) ==
    /\ v.kind = "object"
    /\ v.isLive \in {JsTrue, JsFalse}
    /\ v.confidence # Undefined
    /\ v.reasoning # Undefined

\* C1: stale timer safety.  When the timer of an attempt that is no longer
\* the latest one fires (the session was reset and started again since),
\* status, active challenge, verdict and error stay as they are.
StaleTimerIgnored ==
    [][\A t \in timers :
          (t \notin timers' /\ t.id # nAttempts) => UNCHANGED sessionState]_vars

\* The page never has such a timer: the start button is rendered only in
\* IDLE and the reset buttons only in SUCCESS and FAILED, where no timer is
\* pending, so every pending timer belongs to the attempt started last.
NoStaleTimer == \A t \in timers : t.id = nAttempts

\* C2: status FAILED only with a stored verdict whose isLive is false.
FailedOnlyOnNegativeVerdict ==
    status = "FAILED" => (result.kind = "object" /\ result.isLive = JsFalse)

\* C3: a returned verdict is stored as it is and decides the status, with no
\* error set; so SUCCESS goes with a stored isLive = true and FAILED with a
\* stored isLive = false.
VerdictStoredAndDecides ==
    /\ lastOp = "verdict" =>
          /\ result.isLive = lastResponse.text.isLive
          /\ result.confidence = lastResponse.text.confidence
          /\ result.reasoning = lastResponse.text.reasoning
          /\ status = (IF result.isLive = JsTrue THEN "SUCCESS" ELSE "FAILED")
          /\ error = Null
    /\ status = "SUCCESS" => (result # NullResult /\ result.isLive = JsTrue)
    /\ status = "FAILED" => (result # NullResult /\ result.isLive = JsFalse)

\* C4: a response that does not parse into the three required fields ends
\* the attempt in IDLE with the service error and no verdict; no partial
\* verdict is ever stored.
UnparseableResponseRejected ==
    /\ (/\ VerifyResumed
        /\ ~lastResponse.rejected
        /\ ~CompleteVerdict(lastResponse.text)) =>
          (status = "IDLE" /\ error = ErrService /\ result = NullResult)
    /\ result # NullResult => CompleteVerdict(result)

\* C5: when captureFrame gives no frame to the timer callback, the attempt
\* ends in IDLE with the capture error and no verdict, nothing of the
\* attempt stays pending, and verifyLiveness is never called without a frame.
CaptureFailureShortCircuit ==
    /\ (TimerCallbackRan /\ lastFrame \in {Null, ""}) =>
          /\ status = "IDLE"
          /\ error = ErrCapture
          /\ result = NullResult
          /\ \A c \in calls : c.id # lastId
          /\ \A t \in timers : t.id # lastId
    /\ \A c \in calls : c.frame \notin {Null, ""}

CaptureFailed ==
    /\ lastOp = "timerNoFrame"
    /\ lastFrame = ""
    /\ status = "IDLE"
    /\ error = ErrCapture

\* C6: when verifyLiveness throws (generateContent rejects, or the text is
\* not JSON), the attempt ends in IDLE with the service error and no verdict.
RemoteFailureShortCircuit ==
    (VerifyResumed /\ (lastResponse.rejected \/ lastResponse.text.kind = "invalid")) =>
        (status = "IDLE" /\ error = ErrService /\ result = NullResult)

RemoteCallFailed ==
    /\ VerifyResumed
    /\ lastResponse.rejected
    /\ status = "IDLE"
    /\ error = ErrService

\* C7: a stored verdict and a stored error are never both present.
VerdictErrorExclusive == ~(result # NullResult /\ error # Null)

\* C8: right after reset, status is IDLE and active challenge, verdict and
\* error are all absent.
ResetClearsAll ==
    lastOp = "reset" =>
        /\ status = "IDLE"
        /\ currentChallenge = NullChallenge
        /\ result = NullResult
        /\ error = Null

ResetDone == lastOp = "reset" /\ status = "IDLE" /\ nAttempts >= 1

\* C9: the sample given to verifyLiveness is the sample stored when the
\* timer fires.
SampleIsMostRecent ==
    lastOp = "timerCallsVerify" =>
        \A c \in calls : c.id = lastId => c.gyro = gyro

\* C10: at most one timer or call is pending in total, and while one is
\* pending the status is not IDLE and the start button is not offered.
SingleAttemptInFlight ==
    /\ Cardinality(timers) + Cardinality(calls) <= 1
    /\ RunCheckVisible => (timers = {} /\ calls = {})
    /\ (timers # {} \/ calls # {}) =>
          status \in {"CHALLENGE_REQUESTED", "VERIFYING"}

CallOutstandingStartRefused ==
    /\ Cardinality(calls) = 1
    /\ status = "VERIFYING"
    /\ isCameraReady /\ isGyroReady
    /\ nAttempts < MaxAttempts
    /\ ~RunCheckVisible
\* The status an attempt is in between its start and its outcome.
AttemptActive == status \in {"CHALLENGE_REQUESTED", "VERIFYING"}

\* C11: a start leaves IDLE for CHALLENGE_REQUESTED in the one handler,
\* through INITIALIZING, with one challenge of the catalog recorded as the
\* active challenge and closed over by the one timer it schedules; IDLE is
\* left only by a start, VERIFYING is entered only from CHALLENGE_REQUESTED,
\* and no step replaces the active challenge while the attempt is active.
ChallengeIssuedByStart ==
    [][ /\ lastOp' = "start" =>
            /\ status = "IDLE"
            /\ status' = "CHALLENGE_REQUESTED"
            /\ statusWrites' = << "INITIALIZING", "CHALLENGE_REQUESTED" >>
            /\ \E i \in DOMAIN CHALLENGES : currentChallenge' = CHALLENGES[i]
            /\ \E t \in timers' :
                  /\ timers' = timers \cup {t}
                  /\ t \notin timers
                  /\ t.id = lastId'
                  /\ t.challenge = currentChallenge'
        /\ (status = "IDLE" /\ status' # "IDLE") => lastOp' = "start"
        /\ (status # "VERIFYING" /\ status' = "VERIFYING")
              => status = "CHALLENGE_REQUESTED"
        /\ AttemptActive => currentChallenge' = currentChallenge
      ]_vars

\* A second attempt has just been started with the third challenge.
ChallengeIssued ==
    /\ lastOp = "start"
    /\ lastId = 2
    /\ status = "CHALLENGE_REQUESTED"
    /\ currentChallenge = CHALLENGES[3]

\* C12: right after a start the stored verdict and the error are both absent.
StartClearsOutcome ==
    lastOp = "start" => (result = NullResult /\ error = Null)

\* A later attempt has just been started: the one before it ended in IDLE
\* with an error, or in a verdict that reset cleared.
RestartedClean ==
    /\ lastOp = "start"
    /\ lastId > 1
    /\ status = "CHALLENGE_REQUESTED"
    /\ result = NullResult
    /\ error = Null

\* The entries of the catalog.
Catalog == {CHALLENGES[i] : i \in DOMAIN CHALLENGES}

\* C13: the active challenge is absent or an entry of the catalog, with id
\* "1" to "4" and never the movement "steady"; the same holds of the
\* challenge every pending timer and every pending call carries.
ChallengeFromCatalog ==
    /\ currentChallenge \in Catalog \cup {NullChallenge}
    /\ currentChallenge # NullChallenge =>
          /\ currentChallenge.id \in {"1", "2", "3", "4"}
          /\ currentChallenge.expectedMovement \in
                {"tilt_up", "tilt_down", "rotate_left", "rotate_right"}
    /\ currentChallenge.expectedMovement # "steady"
    /\ \A t \in timers : t.challenge \in Catalog
    /\ \A c \in calls : c.challenge \in Catalog

\* The last entry of the catalog has been selected and sent for a verdict.
LastChallengeSelected ==
    /\ currentChallenge.id = "4"
    /\ \E c \in calls : c.challenge = CHALLENGES[4]

\* A press of "Run Liveness Check" that selects challenge ch and has the
\* effect of a start on everything else of the session.
StartSelecting(ch) ==
    /\ ClickRunLivenessCheck
    /\ currentChallenge' = ch
    /\ status' = "CHALLENGE_REQUESTED"
    /\ result' = NullResult
    /\ error' = Null
    /\ UNCHANGED << gyro, isCameraReady, isGyroReady, listeners,
                    gyroCleanupRef >>

\* C14: whenever a start is offered, every entry of the catalog can be the
\* one it selects, whatever was selected before, and whichever is selected
\* the start leaves the rest of the session in the same state.
SelectionHasNoMemory ==
    (RunCheckVisible /\ nAttempts < MaxAttempts) =>
        \A ch \in Catalog : ENABLED StartSelecting(ch)

\* An attempt with the second challenge has ended in IDLE, the challenge
\* still recorded, and the next start can select the second challenge again.
SameChallengeAgain ==
    /\ nAttempts = 1
    /\ RunCheckVisible
    /\ currentChallenge = CHALLENGES[2]
    /\ ENABLED StartSelecting(CHALLENGES[2])

\* C15: when timers elapse and requests complete, an attempt that is in
\* CHALLENGE_REQUESTED or VERIFYING reaches SUCCESS, FAILED or IDLE.
AttemptResolves ==
    AttemptActive ~> status \in {"SUCCESS", "FAILED", "IDLE"}

\* An attempt whose request failed has ended in IDLE.
ResolvedAfterFailure ==
    /\ lastOp = "verifyError"
    /\ lastResponse.rejected
    /\ status = "IDLE"
    /\ calls = {}
    /\ timers = {}

\* C16: the challenge a verifyLiveness call is given is the active challenge,
\* the one the start of the same attempt recorded: when the timer callback has
\* just made the call, and for as long as the call is pending.
VerifyGetsIssuedChallenge ==
    /\ lastOp = "timerCallsVerify" =>
          \E c \in calls : c.id = lastId /\ c.challenge = currentChallenge
    /\ \A c \in calls : c.challenge = currentChallenge /\ c.challenge \in Catalog
    /\ \A t \in timers : t.challenge = currentChallenge

\* The second attempt's callback has called verifyLiveness with the first
\* challenge of the catalog.
VerifyCalledWithChallenge ==
    /\ lastOp = "timerCallsVerify"
    /\ lastId = 2
    /\ currentChallenge = CHALLENGES[1]
    /\ \E c \in calls : c.id = 2 /\ c.challenge = CHALLENGES[1]

\* C17: while the timer of an attempt is pending the status is
\* CHALLENGE_REQUESTED, the active challenge is the one the timer closed over,
\* the verdict and the error are absent, no frame has been captured and no
\* verifyLiveness call has been made.
EngagementDelayQuiet ==
    timers # {} =>
        /\ status = "CHALLENGE_REQUESTED"
        /\ \A t \in timers : t.challenge = currentChallenge
        /\ result = NullResult
        /\ error = Null
        /\ lastFrame = NotCaptured
        /\ calls = {}

\* The timers and the calls of attempt a that are pending.
ItemsOf(pending, a) == {x \in pending : x.id = a}
PendingTimers(a) == ItemsOf(timers, a)
PendingCalls(a) == ItemsOf(calls, a)

\* C18: a frame is captured only by the step in which a timer fires, and that
\* step removes the timer; a start schedules the one timer of a new attempt;
\* a verifyLiveness call is made only in the step of the attempt's timer, with
\* the frame that step captured; an attempt never has more than one timer or
\* call pending; an attempt with nothing pending never gets a timer or a call
\* again; and a failed capture or a failed call leaves the attempt with nothing
\* pending and the status IDLE.
CaptureOnceVerifyOnce ==
    [][ /\ (lastFrame' # NotCaptured) <=> (timers' # timers /\ timers' \subseteq timers)
        /\ lastFrame' # NotCaptured =>
              \E t \in timers : timers' = timers \ {t} /\ t.id = lastId'
        /\ \A t \in timers' \ timers :
              /\ lastOp' = "start"
              /\ t.id = nAttempts + 1
              /\ nAttempts' = nAttempts + 1
              /\ timers' = timers \cup {t}
        /\ \A c \in calls' \ calls :
              /\ calls' = calls \cup {c}
              /\ \E t \in timers \ timers' : t.id = c.id
              /\ ~NoFrame(lastFrame')
              /\ c.frame = lastFrame'
        /\ \A a \in 1 .. nAttempts' :
              Cardinality(PendingTimers(a)') + Cardinality(PendingCalls(a)') <= 1
        /\ \A a \in 1 .. nAttempts :
              (PendingTimers(a) = {} /\ PendingCalls(a) = {})
                => (PendingTimers(a)' = {} /\ PendingCalls(a)' = {})
        /\ lastOp' \in {"timerNoFrame", "verifyError"} =>
              /\ ItemsOf(timers', lastId') = {}
              /\ ItemsOf(calls', lastId') = {}
              /\ status' = "IDLE"
      ]_vars

\* The callback of the first attempt has captured a frame and made its call;
\* the timer is gone.
CapturedThenCalled ==
    /\ lastOp = "timerCallsVerify"
    /\ lastId = 1
    /\ lastFrame = "base64jpeg"
    /\ PendingTimers(1) = {}
    /\ Cardinality(PendingCalls(1)) = 1

\* The status edges each handler may take.
EdgesOf(op) ==
    CASE op = "start" ->
           {<< "IDLE", "INITIALIZING" >>,
            << "INITIALIZING", "CHALLENGE_REQUESTED" >>}
      [] op = "timerCallsVerify" ->
           {<< "CHALLENGE_REQUESTED", "VERIFYING" >>}
      [] op = "timerNoFrame" ->
           {<< "CHALLENGE_REQUESTED", "VERIFYING" >>, << "VERIFYING", "IDLE" >>}
      [] op = "verdict" ->
           {<< "VERIFYING", "SUCCESS" >>, << "VERIFYING", "FAILED" >>}
      [] op = "verifyError" ->
           {<< "VERIFYING", "IDLE" >>}
      [] op = "reset" ->
           {<< "SUCCESS", "IDLE" >>, << "FAILED", "IDLE" >>}
      [] OTHER -> {}

\* C19: the values a handler gives setStatus, taken in order from the status
\* it started in, follow only the edges IDLE to CHALLENGE_REQUESTED through
\* INITIALIZING by a start, CHALLENGE_REQUESTED to VERIFYING by the timer
\* callback, VERIFYING to SUCCESS, FAILED or IDLE by the outcome of capture or
\* call, and SUCCESS or FAILED to IDLE by reset; in SUCCESS and FAILED nothing
\* but reset changes the status or the stored verdict; RECORDING is never
\* written.
StatusFollowsEdges ==
    [][ LET path == << status >> \o statusWrites' IN
        /\ status' = path[Len(path)]
        /\ \A k \in 1 .. Len(path) - 1 :
              << path[k], path[k + 1] >> \in EdgesOf(lastOp')
        /\ \A k \in 1 .. Len(path) : path[k] # "RECORDING"
        /\ (status \in {"SUCCESS", "FAILED"} /\ lastOp' # "reset")
              => (status' = status /\ result' = result)
      ]_vars

\* The status rests in FAILED with its verdict while a sensor event or the
\* end of an initialization chain is handled.
FailedRests ==
    /\ status = "FAILED"
    /\ result # NullResult
    /\ lastOp \in {"orientation", "getUserMediaReject", "play"}

\* C20: while a verifyLiveness call is outstanding the status is VERIFYING and
\* neither the start button nor a reset button is rendered; a step that leaves
\* the call outstanding leaves the status VERIFYING; and the call stops being
\* outstanding only by completing, with a verdict or an error: nothing times
\* it out.
OutstandingCallHoldsVerifying ==
    [][ calls # {} =>
          /\ status = "VERIFYING"
          /\ ~RunCheckVisible
          /\ ~FinishVisible
          /\ ~TryAgainVisible
          /\ calls' = calls => status' = "VERIFYING"
          /\ calls' # calls =>
                /\ lastOp' \in {"verdict", "verifyError"}
                /\ calls' = {}
                /\ status' \in {"SUCCESS", "FAILED", "IDLE"}
      ]_vars

\* A sensor event has been handled while the call is outstanding.
WaitingOnCall ==
    /\ calls # {}
    /\ status = "VERIFYING"
    /\ lastOp = "orientation"

\* The axes of a sensor sample.
Axes == {"alpha", "beta", "gamma"}

\* C21: a step in which a sensor event is handled stores the readings of that
\* event as the sample, whatever was stored before, and leaves status, active
\* challenge, verdict and error as they were.
SensorEventOverwrites ==
    [][ lastOp' = "orientation" =>
          \E event \in OrientationEvents :
              /\ DeviceOrientation(event)
              /\ \A axis \in Axes : gyro'[axis] = event[axis]
              /\ UNCHANGED sessionState
      ]_vars

\* C22: until the first orientation event has been handled, the three fields
\* of the stored sample are absent.
SampleAbsentBeforeFirstEvent ==
    ~isGyroReady => \A axis \in Axes : gyro[axis] = NullAngle

\* C23: after an event is handled, every axis the event carried no value for
\* is absent in the stored sample.
AbsentAxisStaysAbsent ==
    [][ lastOp' = "orientation" =>
          \E event \in OrientationEvents :
              /\ DeviceOrientation(event)
              /\ \A axis \in Axes :
                    event[axis] = NullAngle => gyro'[axis] = NullAngle
      ]_vars

\* The two ready flags.
readyFlags == << isCameraReady, isGyroReady >>

\* C24: a start is offered, and happens, only in IDLE with both ready flags
\* set; the camera flag is set only by the chain whose getUserMedia resolved,
\* when its play() settles; the sensor flag is set only by an orientation
\* event; a rejected getUserMedia and a denied sensor permission set an error,
\* leave the status and both flags alone and do not make the start button
\* appear.
StartNeedsCameraAndSensor ==
    [][ /\ ENABLED ClickRunLivenessCheck =>
              (status = "IDLE" /\ isCameraReady /\ isGyroReady)
        /\ lastOp' = "start" =>
              (status = "IDLE" /\ isCameraReady /\ isGyroReady)
        /\ (~isCameraReady /\ isCameraReady') =>
              /\ lastOp' = "play"
              /\ \E c \in InitIds : initPc[c] = "awaitPlay" /\ initPc'[c] = "done"
        /\ \A c \in InitIds :
              (initPc[c] # "awaitPlay" /\ initPc'[c] = "awaitPlay")
                => lastOp' = "getUserMediaResolve"
        /\ (~isGyroReady /\ isGyroReady') => lastOp' = "orientation"
        /\ \A c \in InitIds :
              ((\E err \in CameraErrors : GetUserMediaReject(c, err))
                 \/ PermissionOutcome(c, FALSE))
                => /\ error' # Null
                   /\ status' = status
                   /\ UNCHANGED readyFlags
                   /\ RunCheckVisible' => RunCheckVisible
        /\ (lastOp' = "clickStartTest" /\ ~requestGyroPermissionSync
              /\ ~platform.hasRequestPermission)
              => /\ error' = ErrMotionDenied
                 /\ status' = status
                 /\ UNCHANGED readyFlags
      ]_vars

\* The camera was refused while the sensor is already reporting: an error
\* is set, the status is IDLE and the start button is not rendered.
CameraRefusedNoStart ==
    /\ lastOp = "getUserMediaReject"
    /\ error = ErrCameraDenied
    /\ isGyroReady
    /\ ~isCameraReady
    /\ status = "IDLE"
    /\ ~RunCheckVisible

\* C25: at most one deviceorientation listener is registered, and when one
\* is, the stored cleanup is the one that removes it.
SingleListener ==
    /\ Cardinality(listeners) <= 1
    /\ listeners # {} => listeners = {gyroCleanupRef}

\* C26: in CHALLENGE_REQUESTED, VERIFYING, SUCCESS and FAILED an active
\* challenge is recorded, an entry of the catalog, and whatever is pending
\* belongs to the attempt started last and carries that challenge.
ActiveChallengeRecorded ==
    status \in {"CHALLENGE_REQUESTED", "VERIFYING", "SUCCESS", "FAILED"} =>
        /\ currentChallenge # NullChallenge
        /\ currentChallenge \in Catalog
        /\ \A t \in timers : t.id = nAttempts /\ t.challenge = currentChallenge
        /\ \A c \in calls : c.id = nAttempts /\ c.challenge = currentChallenge

\* The second attempt ended in SUCCESS with its challenge still recorded.
VerdictKeepsChallenge ==
    /\ status = "SUCCESS"
    /\ nAttempts = 2
    /\ currentChallenge = CHALLENGES[2]

\* C27: in IDLE no active challenge is recorded.
NoChallengeInIdle ==
    status = "IDLE" => currentChallenge = NullChallenge

====
